---- MODULE Spec2Model ----
(***************************************************************************)
(* A model of the authentication backend: the User table with its column   *)
(* constraints, the two routes of the router, the register and login       *)
(* handlers, the token helper and the organisation lookup.                  *)
(*                                                                         *)
(* Every await of a handler that reaches the database is one step, so two  *)
(* requests in flight interleave at those points, as they do on the event  *)
(* loop.  Times are in milliseconds (Date.now()); a token's iat and exp    *)
(* are in whole seconds.                                                    *)
(***************************************************************************)
EXTENDS Integers, Sequences, FiniteSets, TLC

VARIABLES
    users,              \* rows of the User table
    organisations,      \* rows of the Organisation table
    userOrganisations,  \* rows of the UserOrganisation table
    requests,           \* one record per HTTP request: new, pending or done
    clock,              \* Date.now(), in milliseconds
    issued,             \* the token last issued directly by generateToken
    verified,           \* the last result of verifyToken
    ticks,              \* how often the clock has advanced
    lookup              \* the last call of getOrganisationData and its result

vars == <<users, organisations, userOrganisations, requests, clock, issued, verified, ticks, lookup>>

------------------------------------------------------------------------------
(* Bounds of the model. *)

MaxRequests == 2        \* HTTP requests in one behaviour, all of which may be in flight together
MaxSuffix == 2          \* size of the range the random suffix of an id is drawn from
MaxTicks == 6           \* clock advances in the token specification

------------------------------------------------------------------------------
(* Request inputs. *)

None == "<undefined>"

FirstNames == {"John", "Jane"}
LastNames == {"Doe"}
Emails == {"john@example.com", "jane@example.com"}
Passwords == {"password123", "wrongpassword"}
Phones == {"1234567890"}

Opt(S) == S \cup {None}

RequiredFields == <<"firstName", "lastName", "email", "password">>

RegisterPath == "/auth/register"
LoginPath == "/auth/login"

Missing(body) == {f \in {RequiredFields[k] : k \in 1..Len(RequiredFields)} : body[f] = None}

(* Bodies sent to /auth/register.  A complete body carries either first name,
   either email and an optional phone; of the bodies that lack a required
   field there is one for each set of lacking fields. *)
RegisterBodies ==
    {b \in [firstName : Opt(FirstNames), lastName : Opt(LastNames), email : Opt(Emails),
            password : Opt({"password123"}), phone : Opt(Phones)] :
        Missing(b) # {} =>
            /\ b.firstName \in {None, "John"}
            /\ b.email \in {None, "john@example.com"}
            /\ b.phone # None}

(* Bodies sent to /auth/login: {email, password}, either of which may lack. *)
LoginBodies ==
    [firstName : {None}, lastName : {None}, email : Opt(Emails),
     password : Opt(Passwords), phone : {None}]

Requests ==
    {[path |-> RegisterPath, body |-> b] : b \in RegisterBodies}
        \cup {[path |-> LoginPath, body |-> b] : b \in LoginBodies}

------------------------------------------------------------------------------
(* The User model: column constraints. *)

(* A mutation: phone declared allowNull: false as well. *)
NotNullColumnsWithPhone == {"userId", "firstName", "lastName", "email", "password", "phone"}

NotNullColumns == {"userId", "firstName", "lastName", "email", "password"}

(* Mutations: a unique index left out. *)
UniqueColumnsEmailOnly == {"email"}
UniqueColumnsUserIdOnly == {"userId"}

UniqueColumns == {"userId", "email"}

NullViolations(row) == {c \in NotNullColumns : row[c] = None}

UniqueViolations(table, row) == {c \in UniqueColumns : \E r \in table : r[c] = row[c]}

(* A mutation: the row is written before the unique indexes reject it. *)
UserCreateWritesFirst(table, row) ==
    IF NullViolations(row) # {}
    THEN [ok |-> FALSE, name |-> "SequelizeValidationError",
          columns |-> NullViolations(row), table |-> table]
    ELSE IF UniqueViolations(table, row) # {}
    THEN [ok |-> FALSE, name |-> "SequelizeUniqueConstraintError",
          columns |-> UniqueViolations(table, row), table |-> table \cup {row}]
    ELSE [ok |-> TRUE, name |-> None, columns |-> {}, table |-> table \cup {row}]

(* User.create: the row is validated, then inserted under the unique indexes. *)
UserCreate(table, row) ==
    IF NullViolations(row) # {}
    THEN [ok |-> FALSE, name |-> "SequelizeValidationError",
          columns |-> NullViolations(row), table |-> table]
    ELSE IF UniqueViolations(table, row) # {}
    THEN [ok |-> FALSE, name |-> "SequelizeUniqueConstraintError",
          columns |-> UniqueViolations(table, row), table |-> table]
    ELSE [ok |-> TRUE, name |-> None, columns |-> {}, table |-> table \cup {row}]

(* A mutation: the email matched against the wrong column. *)
UserFindOneByUserId(table, where) ==
    IF \E r \in table : r.userId = where.email
    THEN <<CHOOSE r \in table : r.userId = where.email>>
    ELSE <<>>

(* User.findOne({ where: { email } }): <<row>>, or <<>> for null. *)
UserFindOne(table, where) ==
    IF \E r \in table : r.email = where.email
    THEN <<CHOOSE r \in table : r.email = where.email>>
    ELSE <<>>

------------------------------------------------------------------------------
(* The router. *)

(* A mutation: the two handlers exchanged. *)
RouteExchanged(path) ==
    CASE path = RegisterPath -> "loginUser"
      [] path = LoginPath -> "registerUser"
      [] OTHER -> "notFound"

Route(path) ==
    CASE path = RegisterPath -> "registerUser"
      [] path = LoginPath -> "loginUser"
      [] OTHER -> "notFound"

------------------------------------------------------------------------------
(* Helpers: password hashing, id generation, the organisation's name. *)

Salts == {"$2a$10$salt"}

(* bcrypt.hash(password, 10): the digest depends on the salt and the password. *)
Hash(password, salt) == salt \o "$" \o password

(* bcrypt.compare(password, hash). *)
Compare(password, hash) == \E salt \in Salts : hash = Hash(password, salt)

(* generateUniqueId(name): the name plus a random suffix. *)
generateUniqueId(name, suffix) == name \o "-" \o ToString(suffix)

FullName(body) == body.firstName \o "-" \o body.lastName

OrganisationName(firstName) == firstName \o "'s Organisation"

(* The id of a new Organisation row: one no row has yet. *)
NewOrgId(table) == "org" \o ToString(Cardinality(table) + 1)

------------------------------------------------------------------------------
(* The token helper. *)

MsPerSecond == 1000
HourMs == 3600000

ExpiresIn == HourMs \div MsPerSecond    \* "1h", in seconds

Secret == "JWT_SECRET"

Sign(payload, key) == <<"HS256", key, payload>>

(* Mutations: the two fields of the payload exchanged; expiresIn taken in milliseconds. *)
generateTokenExchanged(user, now) ==
    LET iat == now \div MsPerSecond
        payload == [userId |-> [userId |-> user.email, email |-> user.userId],
                    iat |-> iat, exp |-> iat + ExpiresIn]
    IN  [payload |-> payload, signature |-> Sign(payload, Secret)]

generateTokenMillis(user, now) ==
    LET iat == now \div MsPerSecond
        payload == [userId |-> [userId |-> user.userId, email |-> user.email],
                    iat |-> iat, exp |-> iat + HourMs]
    IN  [payload |-> payload, signature |-> Sign(payload, Secret)]

(* generateToken(user): jwt.sign({ userId: user }, secret, { expiresIn: "1h" }) at time now. *)
generateToken(user, now) ==
    LET iat == now \div MsPerSecond
        payload == [userId |-> [userId |-> user.userId, email |-> user.email],
                    iat |-> iat, exp |-> iat + ExpiresIn]
    IN  [payload |-> payload, signature |-> Sign(payload, Secret)]

(* jwt.decode(token): the payload, unverified. *)
decode(token) == token.payload

(* verifyToken(token): jwt.verify(token, secret) at time now. *)
verifyToken(token, now) ==
    IF token.signature # Sign(token.payload, Secret)
    THEN [ok |-> FALSE, error |-> "JsonWebTokenError", payload |-> None]
    ELSE IF now \div MsPerSecond >= token.payload.exp
    THEN [ok |-> FALSE, error |-> "TokenExpiredError", payload |-> None]
    ELSE [ok |-> TRUE, error |-> None, payload |-> token.payload]

------------------------------------------------------------------------------
(* Request validation and the responses. *)

RequiredMessage(field) ==
    CASE field = "firstName" -> "First name is required"
      [] field = "lastName" -> "Last name is required"
      [] field = "email" -> "Email is required"
      [] field = "password" -> "Password is required"

LoginFields == <<"email", "password">>

(* One {field, message} object per missing field, in the order of the fields. *)
ValidationErrors(fields, body) ==
    LET IsMissing(f) == body[f] = None
        miss == SelectSeq(fields, IsMissing)
    IN  [k \in 1..Len(miss) |-> [field |-> miss[k], message |-> RequiredMessage(miss[k])]]

ConstraintColumns == <<"userId", "firstName", "lastName", "email", "password">>

(* The errors of a rejected User.create, one per column. *)
ConstraintErrors(result) ==
    LET InError(c) == c \in result.columns
        cols == SelectSeq(ConstraintColumns, InError)
    IN  [k \in 1..Len(cols) |-> [field |-> cols[k], message |-> result.name]]

Created(user, token) ==
    [status |-> 201,
     body |-> [data |-> [user |-> [userId |-> user.userId, firstName |-> user.firstName,
                                   lastName |-> user.lastName, email |-> user.email,
                                   phone |-> user.phone],
                         accessToken |-> token]]]

Ok(user, token) ==
    [status |-> 200,
     body |-> [data |-> [user |-> [userId |-> user.userId, firstName |-> user.firstName,
                                   lastName |-> user.lastName, email |-> user.email,
                                   phone |-> user.phone],
                         accessToken |-> token]]]

Unprocessable(errors) == [status |-> 422, body |-> [errors |-> errors]]

Unauthorized == [status |-> 401, body |-> [message |-> "Authentication failed"]]

NotFound == [status |-> 404, body |-> [message |-> "Not found"]]

------------------------------------------------------------------------------
(* The state of one request.  The fields after res are history: what the     *)
(* request found and wrote, kept for the properties below.                   *)

NoBody == [firstName |-> None, lastName |-> None, email |-> None, password |-> None, phone |-> None]

NoResponse == [status |-> 0, body |-> [data |-> None]]

NoRows == [users |-> {}, organisations |-> {}, userOrganisations |-> {}]

NewRequest ==
    [state |-> "new", path |-> None, body |-> NoBody, handler |-> None, pc |-> None,
     userId |-> None, orgId |-> None, res |-> NoResponse,
     emailTakenOnArrival |-> FALSE, emailTaken |-> FALSE, userIdTaken |-> FALSE,
     rejected |-> None, where |-> <<>>, found |-> <<>>, emailKnown |-> FALSE,
     passwordMatches |-> FALSE, issuedAt |-> -1, after |-> {}, wrote |-> NoRows]

Diff(before, after) == (after \ before) \cup (before \ after)

(* The rows a step changed, added to those the request changed before. *)
Wrote(r, u, o, m) ==
    [users |-> r.wrote.users \cup u, organisations |-> r.wrote.organisations \cup o,
     userOrganisations |-> r.wrote.userOrganisations \cup m]

Respond(r, res) == [r EXCEPT !.state = "done", !.pc = None, !.res = res]

------------------------------------------------------------------------------
(* registerUser: validation, up to the first await. *)
registerUser(r) ==
    LET errors == ValidationErrors(RequiredFields, r.body)
    IN  IF Len(errors) > 0
        THEN Respond(r, Unprocessable(errors))
        ELSE [r EXCEPT !.state = "pending", !.pc = "createUser"]

(* loginUser: validation, up to the first await. *)
loginUser(r) ==
    LET errors == ValidationErrors(LoginFields, r.body)
    IN  IF Len(errors) > 0
        THEN Respond(r, Unprocessable(errors))
        ELSE [r EXCEPT !.state = "pending", !.pc = "findUser"]

(* The router hands the request to the handler of its path. *)
Dispatch(r) ==
    CASE r.handler = "registerUser" -> registerUser(r)
      [] r.handler = "loginUser" -> loginUser(r)
      [] OTHER -> Respond(r, NotFound)

(* A request arrives. *)
Receive(i, req) ==
    /\ requests[i].state = "new"
    /\ \A j \in 1..(i - 1) : requests[j].state # "new"
    /\ requests' = [requests EXCEPT ![i] =
            Dispatch([@ EXCEPT !.path = req.path, !.body = req.body,
                               !.handler = Route(req.path),
                               !.emailTakenOnArrival = \E u \in users : u.email = req.body.email,
                               !.after = IF req.path = LoginPath
                                         THEN {j \in 1..MaxRequests : requests[j].state = "done"}
                                         ELSE {}])]
    /\ UNCHANGED <<users, organisations, userOrganisations, clock, issued, verified, ticks, lookup>>

(* registerUser: the password is hashed, the id generated and the User row created;
   a rejected create is answered 422. *)
RegisterCreateUser(i) ==
    /\ requests[i].state = "pending"
    /\ requests[i].pc = "createUser"
    /\ \E suffix \in 1..MaxSuffix, salt \in Salts :
        LET r == requests[i]
            row == [userId |-> generateUniqueId(FullName(r.body), suffix),
                    firstName |-> r.body.firstName, lastName |-> r.body.lastName,
                    email |-> r.body.email, password |-> Hash(r.body.password, salt),
                    phone |-> r.body.phone]
            result == UserCreate(users, row)
            seen == [r EXCEPT !.emailTaken = \E u \in users : u.email = row.email,
                              !.userIdTaken = \E u \in users : u.userId = row.userId,
                              !.rejected = result.name,
                              !.wrote = Wrote(r, Diff(users, result.table), {}, {})]
        IN  /\ users' = result.table
            /\ requests' = [requests EXCEPT ![i] =
                    IF result.ok
                    THEN [seen EXCEPT !.userId = row.userId, !.pc = "createOrganisation"]
                    ELSE Respond(seen, Unprocessable(ConstraintErrors(result)))]
    /\ UNCHANGED <<organisations, userOrganisations, clock, issued, verified, ticks, lookup>>

(* registerUser: the default organisation is created. *)
RegisterCreateOrganisation(i) ==
    /\ requests[i].state = "pending"
    /\ requests[i].pc = "createOrganisation"
    /\ LET r == requests[i]
           org == [orgId |-> NewOrgId(organisations), name |-> OrganisationName(r.body.firstName)]
       IN  /\ organisations' = organisations \cup {org}
           /\ requests' = [requests EXCEPT ![i] =
                   [r EXCEPT !.orgId = org.orgId, !.pc = "createUserOrganisation",
                             !.wrote = Wrote(r, {}, {org}, {})]]
    /\ UNCHANGED <<users, userOrganisations, clock, issued, verified, ticks, lookup>>

(* registerUser: the membership row is created, the token signed, 201 sent. *)
RegisterCreateUserOrganisation(i) ==
    /\ requests[i].state = "pending"
    /\ requests[i].pc = "createUserOrganisation"
    /\ LET r == requests[i]
           member == [userId |-> r.userId, orgId |-> r.orgId]
           user == [userId |-> r.userId, firstName |-> r.body.firstName,
                    lastName |-> r.body.lastName, email |-> r.body.email,
                    phone |-> r.body.phone]
           token == generateToken(user, clock)
       IN  /\ userOrganisations' = userOrganisations \cup {member}
           /\ requests' = [requests EXCEPT ![i] =
                   Respond([r EXCEPT !.issuedAt = clock,
                                     !.wrote = Wrote(r, {}, {}, Diff(userOrganisations, userOrganisations'))],
                           Created(user, token))]
    /\ UNCHANGED <<users, organisations, clock, issued, verified, ticks, lookup>>

(* loginUser: the user is looked up by email and the password compared;
   200 with a token, or 401. *)
LoginFindUser(i) ==
    /\ requests[i].state = "pending"
    /\ requests[i].pc = "findUser"
    /\ LET r == requests[i]
           where == [email |-> r.body.email]
           found == UserFindOne(users, where)
           seen == [r EXCEPT !.where = <<where>>, !.found = found,
                             !.emailKnown = \E u \in users : u.email = r.body.email,
                             !.passwordMatches = \E u \in users :
                                    u.email = r.body.email /\ Compare(r.body.password, u.password)]
       IN  requests' = [requests EXCEPT ![i] =
               IF Len(found) = 0
               THEN Respond(seen, Unauthorized)
               ELSE IF ~Compare(r.body.password, found[1].password)
               THEN Respond(seen, Unauthorized)
               ELSE Respond([seen EXCEPT !.issuedAt = clock],
                            Ok(found[1], generateToken(found[1], clock)))]
    /\ UNCHANGED <<users, organisations, userOrganisations, clock, issued, verified, ticks, lookup>>

StartTimes == {1500}

Init ==
    /\ users = {}
    /\ organisations = {}
    /\ userOrganisations = {}
    /\ requests = [i \in 1..MaxRequests |-> NewRequest]
    /\ clock \in StartTimes
    /\ issued = <<>>
    /\ verified = <<>>
    /\ ticks = 0
    /\ lookup = <<>>

Next ==
    \/ \E i \in 1..MaxRequests, req \in Requests : Receive(i, req)
    \/ \E i \in 1..MaxRequests : RegisterCreateUser(i)
    \/ \E i \in 1..MaxRequests : RegisterCreateOrganisation(i)
    \/ \E i \in 1..MaxRequests : RegisterCreateUserOrganisation(i)
    \/ \E i \in 1..MaxRequests : LoginFindUser(i)

Spec == Init /\ [][Next]_vars

------------------------------------------------------------------------------
(* The token helper on its own: tokens are issued and verified as time passes. *)

TokenUsers ==
    {[userId |-> "user123", email |-> "user@example.com"],
     [userId |-> "John-Doe-1", email |-> "john@example.com"]}

TickSteps == {MsPerSecond \div 2, HourMs - MsPerSecond}

Tick(d) ==
    /\ ticks < MaxTicks
    /\ clock' = clock + d
    /\ ticks' = ticks + 1
    /\ UNCHANGED <<users, organisations, userOrganisations, requests, issued, verified, lookup>>

IssueToken(user) ==
    /\ issued' = <<[token |-> generateToken(user, clock), user |-> user, at |-> clock]>>
    /\ verified' = <<>>
    /\ UNCHANGED <<users, organisations, userOrganisations, requests, clock, ticks, lookup>>

VerifyIssued ==
    /\ Len(issued) = 1
    /\ verified' = <<[at |-> clock, result |-> verifyToken(issued[1].token, clock),
                      decoded |-> decode(issued[1].token)]>>
    /\ UNCHANGED <<users, organisations, userOrganisations, requests, clock, issued, ticks, lookup>>

NextToken ==
    \/ \E d \in TickSteps : Tick(d)
    \/ \E user \in TokenUsers : IssueToken(user)
    \/ VerifyIssued

SpecToken == Init /\ [][NextToken]_vars

------------------------------------------------------------------------------
(* The organisation lookup, beside the requests. *)

(* A mutation: the membership looked up by orgId alone. *)
UserOrganisationFindOneByOrgId(table, where) ==
    IF \E m \in table : m.orgId = where.orgId
    THEN <<CHOOSE m \in table : m.orgId = where.orgId>>
    ELSE <<>>

(* UserOrganisation.findOne({ where: { userId, orgId } }). *)
UserOrganisationFindOne(table, where) ==
    IF \E m \in table : m.userId = where.userId /\ m.orgId = where.orgId
    THEN <<CHOOSE m \in table : m.userId = where.userId /\ m.orgId = where.orgId>>
    ELSE <<>>

(* Organisation.findOne({ where: { orgId } }). *)
OrganisationFindOne(table, where) ==
    IF \E o \in table : o.orgId = where.orgId
    THEN <<CHOOSE o \in table : o.orgId = where.orgId>>
    ELSE <<>>

NoAccess == "User does not have access to this organisation"

UserIds ==
    {generateUniqueId(f \o "-" \o l, k) : f \in FirstNames, l \in LastNames, k \in 1..MaxSuffix}
        \cup {"user123"}

OrgIds == {"org" \o ToString(k) : k \in 1..MaxRequests} \cup {"org123"}

(* getOrganisationData(userId, orgId), up to its first await and on to its
   second: the membership is read; without one the call throws, with one it
   goes on to read the organisation.  hadMember and after are history: whether
   the membership existed at this read, and the registrations answered 201
   before it. *)
GetOrganisationDataFindUserOrganisation(userId, orgId) ==
    /\ \A k \in DOMAIN lookup : lookup[k].pc = "done"
    /\ LET userOrg == UserOrganisationFindOne(userOrganisations, [userId |-> userId, orgId |-> orgId])
           call == [userId |-> userId, orgId |-> orgId,
                    hadMember |-> [userId |-> userId, orgId |-> orgId] \in userOrganisations,
                    after |-> {i \in 1..MaxRequests :
                                /\ requests[i].state = "done"
                                /\ requests[i].path = RegisterPath
                                /\ requests[i].res.status = 201}]
       IN  lookup' =
            IF Len(userOrg) = 0
            THEN <<call @@ [pc |-> "done", threw |-> TRUE, message |-> NoAccess, value |-> <<>>]>>
            ELSE <<call @@ [pc |-> "findOrganisation", threw |-> FALSE, message |-> None, value |-> <<>>]>>
    /\ UNCHANGED <<users, organisations, userOrganisations, requests, clock, issued, verified, ticks>>

(* getOrganisationData, after its first await: the organisation is read, in the
   state of this later step, and returned. *)
GetOrganisationDataFindOrganisation ==
    /\ Len(lookup) = 1
    /\ lookup[1].pc = "findOrganisation"
    /\ lookup' = <<[lookup[1] EXCEPT
            !.pc = "done",
            !.value = OrganisationFindOne(organisations, [orgId |-> lookup[1].orgId])]>>
    /\ UNCHANGED <<users, organisations, userOrganisations, requests, clock, issued, verified, ticks>>

NextOrg ==
    \/ Next
    \/ \E userId \in UserIds, orgId \in OrgIds : GetOrganisationDataFindUserOrganisation(userId, orgId)
    \/ GetOrganisationDataFindOrganisation

SpecOrg == Init /\ [][NextOrg]_vars

------------------------------------------------------------------------------
(* Properties. *)

Slots == 1..MaxRequests

Done(i) == requests[i].state = "done"

RegisterDone(i) == Done(i) /\ requests[i].path = RegisterPath

LoginDone(i) == Done(i) /\ requests[i].path = LoginPath

Complete(i) == Missing(requests[i].body) = {}

(* The 201 answer of a registration and the three rows it leaves in the store. *)
RegisteredOk(i) ==
    LET r == requests[i]
    IN  /\ r.res.status = 201
        /\ r.res.body.data.user.firstName = r.body.firstName
        /\ r.res.body.data.user.email = r.body.email
        /\ verifyToken(r.res.body.data.accessToken, r.issuedAt).ok
        /\ \E u \in r.wrote.users \cap users :
           \E o \in r.wrote.organisations \cap organisations :
           \E m \in r.wrote.userOrganisations \cap userOrganisations :
                /\ u.firstName = r.body.firstName
                /\ u.email = r.body.email
                /\ u.userId = r.res.body.data.user.userId
                /\ o.name = r.body.firstName \o "'s Organisation"
                /\ m.userId = u.userId
                /\ m.orgId = o.orgId

(* C1, as stated: every registration with the four required fields whose email
   is not the email of an existing User row is answered 201 with the submitted
   firstName and email and a token, and leaves a new User row, a new
   Organisation row named "<firstName>'s Organisation" and a new
   UserOrganisation row linking the two. *)
C1_AsStated ==
    \A i \in Slots :
        (RegisterDone(i) /\ Complete(i) /\ ~requests[i].emailTaken) => RegisteredOk(i)

(* C1, amended: the same, for every registration with the four required fields
   whose email and whose generated userId are both not those of an existing
   User row when the User row is inserted. *)
C1_RegisterCreates ==
    \A i \in Slots :
        (RegisterDone(i) /\ Complete(i) /\ ~requests[i].emailTaken /\ ~requests[i].userIdTaken)
            => RegisteredOk(i)

(* A registration without a phone was answered 201 while another user existed. *)
C1_Witness ==
    \E i \in Slots :
        /\ RegisterDone(i) /\ Complete(i)
        /\ requests[i].body.phone = None
        /\ requests[i].res.status = 201
        /\ Cardinality(users) = 2

(* The message the errors list carries for a missing field. *)
ClaimedMessage ==
    [firstName |-> "First name is required", lastName |-> "Last name is required",
     email |-> "Email is required", password |-> "Password is required"]

(* C2: a registration that lacks a non-empty set M of the required fields is
   answered 422 with an errors list holding, for each field of M, one
   {field, message} object with that field's own message, and creates no
   User, Organisation or UserOrganisation row. *)
C2_MissingFields ==
    \A i \in Slots :
        (RegisterDone(i) /\ ~Complete(i)) =>
            LET r == requests[i]
            IN  /\ r.res.status = 422
                /\ "errors" \in DOMAIN r.res.body
                /\ \A f \in Missing(r.body) :
                    Cardinality({k \in DOMAIN r.res.body.errors : r.res.body.errors[k].field = f}) = 1
                /\ \A f \in Missing(r.body) :
                    \E k \in DOMAIN r.res.body.errors :
                        r.res.body.errors[k] = [field |-> f, message |-> ClaimedMessage[f]]
                /\ r.wrote = NoRows

(* A registration lacking both names was answered 422 while a user existed. *)
C2_Witness ==
    \E i \in Slots :
        /\ RegisterDone(i)
        /\ Missing(requests[i].body) = {"firstName", "lastName"}
        /\ requests[i].res.status = 422
        /\ users # {}

(* C3: a registration with the four required fields whose User insert meets an
   existing row with the same email or the same generated userId is answered
   422 with an errors property, and changes no User row. *)
C3_DuplicateRejected ==
    \A i \in Slots :
        (RegisterDone(i) /\ Complete(i) /\ (requests[i].emailTaken \/ requests[i].userIdTaken)) =>
            /\ requests[i].res.status = 422
            /\ "errors" \in DOMAIN requests[i].res.body
            /\ requests[i].rejected = "SequelizeUniqueConstraintError"
            /\ requests[i].wrote.users = {}

(* A registration with a fresh email was rejected for its generated userId. *)
C3_Witness ==
    \E i \in Slots :
        /\ RegisterDone(i) /\ Complete(i)
        /\ requests[i].userIdTaken /\ ~requests[i].emailTaken
        /\ requests[i].res.status = 422

HasCredentials(i) == requests[i].body.email # None /\ requests[i].body.password # None

(* C4: a login with an email and a password, for which no User row has that
   email or the password does not match the hash of the row with that email,
   is answered 401 without an access token and changes none of the tables. *)
C4_LoginRejected ==
    \A i \in Slots :
        (LoginDone(i) /\ HasCredentials(i) /\ ~(requests[i].emailKnown /\ requests[i].passwordMatches)) =>
            /\ requests[i].res.status = 401
            /\ "data" \notin DOMAIN requests[i].res.body
            /\ "accessToken" \notin DOMAIN requests[i].res.body
            /\ requests[i].wrote = NoRows

(* A login with the email of a user and a wrong password was answered 401. *)
C4_Witness ==
    \E i \in Slots :
        /\ LoginDone(i) /\ HasCredentials(i)
        /\ requests[i].emailKnown /\ ~requests[i].passwordMatches
        /\ requests[i].res.status = 401

(* The 200 answer of a login for the User row with the submitted email. *)
LoggedIn(i) ==
    LET r == requests[i]
    IN  /\ r.res.status = 200
        /\ r.where = <<[email |-> r.body.email]>>
        /\ r.res.body.data.user.email = r.body.email
        /\ \E u \in users :
            /\ u.email = r.body.email
            /\ r.res.body.data.user.userId = u.userId
            /\ decode(r.res.body.data.accessToken).userId = [userId |-> u.userId, email |-> u.email]
        /\ verifyToken(r.res.body.data.accessToken, r.issuedAt).ok

(* C5: a login whose email is that of a User row and whose password matches
   the row's hash looks the user up by exactly that email and is answered 200
   with the row's email and a token signed for the row's userId and email; a
   login with (e, p) that arrives after a registration with (e, p) was
   answered 201 is answered 200. *)
C5_LoginAccepted ==
    \A i \in Slots :
        LoginDone(i) =>
            /\ (HasCredentials(i) /\ requests[i].emailKnown /\ requests[i].passwordMatches) => LoggedIn(i)
            /\ \A j \in requests[i].after :
                (/\ requests[j].path = RegisterPath
                 /\ requests[j].res.status = 201
                 /\ requests[j].body.email = requests[i].body.email
                 /\ requests[j].body.password = requests[i].body.password) => LoggedIn(i)

(* A login was answered 200 after the registration of the same credentials. *)
C5_Witness ==
    \E i \in Slots :
        /\ LoginDone(i)
        /\ requests[i].res.status = 200
        /\ \E j \in requests[i].after :
            /\ requests[j].path = RegisterPath
            /\ requests[j].res.status = 201
            /\ requests[j].body.email = requests[i].body.email

(* C6: no two distinct User rows have the same email or the same userId, and
   of the registrations that carry one email at most one is answered 201. *)
C6_Unique ==
    /\ \A u, v \in users : u # v => (u.email # v.email /\ u.userId # v.userId)
    /\ \A e \in Emails :
        Cardinality({i \in Slots : /\ RegisterDone(i)
                                   /\ requests[i].body.email = e
                                   /\ requests[i].res.status = 201}) <= 1

(* Two registrations of one email were in flight together: one was answered
   201, the other 422. *)
C6_Witness ==
    \E i, j \in Slots :
        /\ RegisterDone(i) /\ RegisterDone(j)
        /\ requests[i].body.email = requests[j].body.email
        /\ requests[i].res.status = 201
        /\ requests[j].res.status = 422
        /\ ~requests[j].emailTakenOnArrival /\ requests[j].emailTaken

MembershipsOf(userId) == {m \in userOrganisations : m.userId = userId}

(* The user has one membership row, and it points to the user's own default organisation. *)
OneDefaultOrganisation(userId, firstName) ==
    /\ Cardinality(MembershipsOf(userId)) = 1
    /\ \A m \in MembershipsOf(userId) :
        \E o \in organisations : o.orgId = m.orgId /\ o.name = firstName \o "'s Organisation"

(* No Organisation or UserOrganisation row was written by a request that wrote no User row. *)
NoRowsWithoutUser ==
    \A i \in Slots :
        (requests[i].wrote.organisations # {} \/ requests[i].wrote.userOrganisations # {})
            => requests[i].wrote.users # {}

(* A registration that has inserted this User row has not been answered yet. *)
InFlight(userId) ==
    \E i \in Slots : requests[i].state = "pending" /\ requests[i].userId = userId

(* C7, as stated: after every completed register request, answered 201 or 422,
   every User row has exactly one UserOrganisation row with its userId, which
   points to an existing Organisation row named "<firstName>'s Organisation",
   and no Organisation or UserOrganisation row exists that was created for a
   registration that did not produce a User row. *)
C7_AsStated ==
    (\E i \in Slots : RegisterDone(i)) =>
        /\ \A u \in users : OneDefaultOrganisation(u.userId, u.firstName)
        /\ NoRowsWithoutUser

(* C7, amended: every User row, other than the row of a registration that is
   still in flight between its User insert and its answer, has exactly one
   UserOrganisation row with its userId, which points to an existing
   Organisation row named "<firstName>'s Organisation"; this holds of the
   user of every registration answered 201; a registration answered 422 has
   written no row at all; no Organisation or UserOrganisation row was written
   by a request that wrote no User row; every UserOrganisation row links an
   existing User row to an existing Organisation row, and every Organisation
   row has its UserOrganisation row unless its registration is still in flight. *)
C7_NoPartialResult ==
    /\ \A u \in users : InFlight(u.userId) \/ OneDefaultOrganisation(u.userId, u.firstName)
    /\ \A i \in Slots :
        RegisterDone(i) =>
            /\ requests[i].res.status \in {201, 422}
            /\ requests[i].res.status = 201 =>
                    OneDefaultOrganisation(requests[i].userId, requests[i].body.firstName)
            /\ requests[i].res.status = 422 => requests[i].wrote = NoRows
    /\ NoRowsWithoutUser
    /\ \A m \in userOrganisations :
        /\ \E u \in users : u.userId = m.userId
        /\ \E o \in organisations : o.orgId = m.orgId
    /\ \A o \in organisations :
        \/ \E m \in userOrganisations : m.orgId = o.orgId
        \/ \E i \in Slots : requests[i].state = "pending" /\ requests[i].orgId = o.orgId

(* Every request has completed: one registration with 201, one with 422 for a duplicate. *)
C7_Witness ==
    /\ \A i \in Slots : Done(i)
    /\ \E i, j \in Slots :
        /\ RegisterDone(i) /\ requests[i].res.status = 201
        /\ RegisterDone(j) /\ requests[j].res.status = 422
        /\ requests[j].rejected = "SequelizeUniqueConstraintError"

------------------------------------------------------------------------------
(* Properties of the token helper, under SpecToken. *)

(* C8: verified at the moment it was issued, a token of generateToken(user) is
   accepted, and the payload verifyToken returns carries the user's userId and
   email under userId, as does the payload decoded without verification. *)
C8_TokenRoundTrip ==
    (Len(verified) = 1 /\ verified[1].at = issued[1].at) =>
        /\ verified[1].result.ok
        /\ verified[1].result.payload.userId.userId = issued[1].user.userId
        /\ verified[1].result.payload.userId.email = issued[1].user.email
        /\ verified[1].decoded.userId.userId = issued[1].user.userId
        /\ verified[1].decoded.userId.email = issued[1].user.email
        /\ verified[1].decoded.userId = verified[1].result.payload.userId

(* A token issued after the clock had advanced was verified at once. *)
C8_Witness ==
    /\ Len(verified) = 1
    /\ verified[1].at = issued[1].at
    /\ issued[1].at > 1500
    /\ verified[1].result.ok

(* C9, as stated: a token issued at time t carries exp = t + 1 hour, is accepted
   at every time before t + 1 hour and rejected at every time after it. *)
C9_AsStated ==
    /\ Len(issued) = 1 => issued[1].token.payload.exp * MsPerSecond = issued[1].at + HourMs
    /\ Len(verified) = 1 =>
        /\ verified[1].at < issued[1].at + HourMs => verified[1].result.ok
        /\ verified[1].at > issued[1].at + HourMs => ~verified[1].result.ok

(* C9, amended: a token issued at time t carries exp = t in whole seconds plus
   3600, which is at most 3600 seconds and more than 3599 seconds after t; it
   is accepted exactly while the time in whole seconds is before exp, so at
   every time up to t + 1 hour - 1 second, and rejected as expired at every
   time from t + 1 hour on. *)
C9_ExpiresInOneHour ==
    /\ Len(issued) = 1 =>
        LET t == issued[1].at
            exp == issued[1].token.payload.exp
        IN  /\ exp = (t \div 1000) + 3600
            /\ exp * 1000 <= t + 3600000
            /\ exp * 1000 > t + 3600000 - 1000
    /\ Len(verified) = 1 =>
        LET t == issued[1].at
            now == verified[1].at
            ok == verified[1].result.ok
        IN  /\ ok <=> (now \div 1000) < issued[1].token.payload.exp
            /\ now <= t + 3600000 - 1000 => ok
            /\ now >= t + 3600000 => (~ok /\ verified[1].result.error = "TokenExpiredError")

(* A token was rejected as expired one hour after it was issued, and not before. *)
C9_Witness ==
    /\ Len(verified) = 1
    /\ verified[1].at = issued[1].at + HourMs
    /\ ~verified[1].result.ok

------------------------------------------------------------------------------
(* Properties of the organisation lookup, under SpecOrg. *)

(* C10: getOrganisationData(userId, orgId) returns the Organisation row with
   that orgId only if a UserOrganisation row with that userId and that orgId
   exists; without one it fails with "User does not have access to this
   organisation" and returns nothing; so a user whose registration was
   answered 201 before the call reads their own default organisation and no
   other organisation. *)
C10_LookupNeedsMembership ==
    \A k \in DOMAIN lookup :
        LET l == lookup[k]
        IN  l.pc = "done" =>
            /\ ~l.threw =>
                /\ l.hadMember
                /\ [userId |-> l.userId, orgId |-> l.orgId] \in userOrganisations
                /\ \A n \in DOMAIN l.value :
                        l.value[n] \in organisations /\ l.value[n].orgId = l.orgId
            /\ ~l.hadMember =>
                /\ l.threw
                /\ l.message = "User does not have access to this organisation"
                /\ l.value = <<>>
            /\ \A i \in l.after :
                requests[i].userId = l.userId =>
                    IF l.orgId = requests[i].orgId
                    THEN /\ ~l.threw
                         /\ Len(l.value) = 1
                         /\ l.value[1].orgId = requests[i].orgId
                         /\ l.value[1].name = requests[i].body.firstName \o "'s Organisation"
                    ELSE l.threw /\ l.value = <<>>

(* With two users registered, one read their own organisation in a call that
   began before the other's registration was answered. *)
C10_Witness ==
    /\ Len(lookup) = 1
    /\ lookup[1].pc = "done"
    /\ ~lookup[1].threw
    /\ Len(lookup[1].value) = 1
    /\ Cardinality(lookup[1].after) = 1
    /\ Cardinality(userOrganisations) = 2
    /\ \A i \in Slots : RegisterDone(i) /\ requests[i].res.status = 201

(* A registered user asked for the organisation of another registration and was refused. *)
C10_WitnessRefused ==
    /\ Len(lookup) = 1
    /\ lookup[1].pc = "done"
    /\ lookup[1].threw
    /\ \E i \in lookup[1].after, j \in Slots \ lookup[1].after :
        /\ requests[i].userId = lookup[1].userId
        /\ requests[j].orgId = lookup[1].orgId

====
